---- MODULE Spec2Model ----
(***************************************************************************)
(* Model of hyperlinked/__init__.py: OSC8 hyperlinks to the call site.     *)
(*                                                                         *)
(* A Python str is a sequence of one-character strings; the escape byte    *)
(* 0x1B is the token ESC.  An Optional value is <<>> (None) or <<v>>.      *)
(* A stream object is a record [name, truthy]; truthy is what bool() of    *)
(* the object returns.                                                     *)
(***************************************************************************)
EXTENDS Integers, Sequences, FiniteSets, TLC

VARIABLES SCHEME, op, inp, ret, raised, writes

vars == <<SCHEME, op, inp, ret, raised, writes>>

(* ------------------------------ bounds --------------------------------- *)

MaxTextLen == 2

MaxUrlLen == 2

MaxDepth == 3

MaxLimit == 3

(* Stands for sys.getrecursionlimit(). *)
RecursionLimit == 3

(* ---------------------------- characters ------------------------------- *)

ESC == "ESC"

NL == "\n"

BSL == "\\"

DQ == "\""

Whitespace == {" ", NL, "\t"}

None == <<>>

Some(v) == <<v>>

(* All strings over the alphabet cs of length at most n. *)
StringsUpTo(cs, n) == UNION {[1..k -> cs] : k \in 0..n}

(* ------------------------ module-level default ------------------------- *)

file_scheme == <<"f", "i", "l", "e">>

vscode_scheme == <<"v", "s", "c", "o", "d", "e">>

cursor_scheme == <<"c", "u", "r", "s", "o", "r">>

(* os.environ.get("HYPERLINKED_SCHEME", "file") *)
EnvironGet(env) == IF env = None THEN file_scheme ELSE env[1]

(* ------------------------------ hyperlink ------------------------------ *)

osc == <<ESC, "]">>

st == <<ESC, BSL>>

(* hyperlink, were it to drop the escape bytes of the text. *)
hyperlink_sanitized(text, url) ==
    osc \o <<"8", ";", ";">> \o url \o st
        \o SelectSeq(text, LAMBDA ch : ch # ESC) \o osc \o <<"8", ";", ";">> \o st

(* hyperlink, were it to end its sequences with the one-character BEL. *)
hyperlink_bel(text, url) ==
    osc \o <<"8", ";", ";">> \o url \o <<"BEL">> \o text \o osc \o <<"8", ";", ";">> \o <<"BEL">>

hyperlink(text, url) ==
    osc \o <<"8", ";", ";">> \o url \o st \o text \o osc \o <<"8", ";", ";">> \o st

(* --------------------------- str(int) ---------------------------------- *)

Digit(d) ==
    CASE d = 0 -> "0" [] d = 1 -> "1" [] d = 2 -> "2" [] d = 3 -> "3" [] d = 4 -> "4"
      [] d = 5 -> "5" [] d = 6 -> "6" [] d = 7 -> "7" [] d = 8 -> "8" [] d = 9 -> "9"

RECURSIVE IntStr(_)
(* The decimal text of a non-negative int, as an f-string or str() renders it. *)
IntStr(n) == IF n < 10 THEN <<Digit(n)>> ELSE IntStr(n \div 10) \o <<Digit(n % 10)>>

(* --------------------------- Path.resolve ------------------------------ *)

(* The working directory of the process. *)
Cwd == <<"/", "w">>

RECURSIVE SplitPath(_, _, _)
(* The components of s between "/" separators: cur is the one being read. *)
SplitPath(s, cur, acc) ==
    IF s = <<>> THEN Append(acc, cur)
    ELSE IF Head(s) = "/" THEN SplitPath(Tail(s), <<>>, Append(acc, cur))
    ELSE SplitPath(Tail(s), Append(cur, Head(s)), acc)

RECURSIVE Normalize(_, _)
(* Empty and "." components vanish, ".." removes the component before it
   (and nothing at the root). *)
Normalize(parts, acc) ==
    IF parts = <<>> THEN acc
    ELSE LET p == Head(parts) IN
         IF p = <<>> \/ p = <<".">> THEN Normalize(Tail(parts), acc)
         ELSE IF p = <<".", ".">>
              THEN Normalize(Tail(parts),
                             IF acc = <<>> THEN acc ELSE SubSeq(acc, 1, Len(acc) - 1))
              ELSE Normalize(Tail(parts), Append(acc, p))

RECURSIVE JoinPath(_)
JoinPath(parts) ==
    IF parts = <<>> THEN <<>> ELSE <<"/">> \o Head(parts) \o JoinPath(Tail(parts))

IsAbs(path) == path # <<>> /\ Head(path) = "/"

(* Path(path).resolve() on a file system without symbolic links: the path
   made absolute against the working directory and normalized. *)
Resolve(path) ==
    LET full  == IF IsAbs(path) THEN path ELSE Cwd \o <<"/">> \o path
        parts == Normalize(SplitPath(full, <<>>, <<>>), <<>>)
    IN  IF parts = <<>> THEN <<"/">> ELSE JoinPath(parts)

(* -------------------------- hyperlink_to_path -------------------------- *)

(* hyperlink_to_path, were it to drop the leading "/" of the resolved path. *)
hyperlink_to_path_relative(text, path, line, scheme) ==
    LET base == scheme \o <<":", "/", "/", "f", "i", "l", "e", "/">> \o Tail(Resolve(path))
        url  == IF line # None THEN base \o <<":">> \o IntStr(line[1]) ELSE base
    IN  hyperlink(text, url)

hyperlink_to_path(text, path, line, scheme) ==
    LET base == scheme \o <<":", "/", "/", "f", "i", "l", "e", "/">> \o Resolve(path)
        url  == IF line # None THEN base \o <<":">> \o IntStr(line[1]) ELSE base
    IN  hyperlink(text, url)

(* ------------------------------ inputs --------------------------------- *)

TextChars == {ESC, "x", BSL}

UrlChars == {"u", "/"}

Texts == StringsUpTo(TextChars, MaxTextLen)

Urls == StringsUpTo(UrlChars, MaxUrlLen)

Environments == {None, Some(cursor_scheme)}

(* A scheme argument: None when the caller leaves the default in place. *)
SchemeArgs == {None, Some(vscode_scheme)}

tmp_a_py == <<"/", "t", "m", "p", "/", "a", ".", "p", "y">>

Paths ==
    { tmp_a_py,
      <<"a", ".", "p", "y">>,
      <<"/", "t", "/", ".", ".", "/", "a">>,
      <<"/", "/", "t", "/", "/", "a", "/">>,
      <<".", "/", "a">>,
      <<"/">>,
      <<>> }

Lines == {None, Some(0), Some(7), Some(42), Some(120)}

(* ------------------------------ streams -------------------------------- *)

stdout == [name |-> "sys.stdout", truthy |-> TRUE]

stderr == [name |-> "sys.stderr", truthy |-> TRUE]

(* file=None: the argument was not supplied (None is falsy). *)
NoFile == [name |-> "None", truthy |-> FALSE]

(* Python's "a or b": a when bool(a), else b. *)
Or(a, b) == IF a.truthy THEN a ELSE b

(* builtins.print(text, end=end, file=file, flush=flush): one write of the
   text and the terminator; file=None means sys.stdout. *)
BuiltinPrint(text, end, file, flush) ==
    [file  |-> IF file = NoFile THEN stdout ELSE file,
     text  |-> text,
     end   |-> end,
     flush |-> flush]

(* ------------------------------- str ----------------------------------- *)

(* A printed object: a str s, or an int n. *)
StrValue(s) == [kind |-> "str", s |-> s, n |-> 0]

IntValue(n) == [kind |-> "int", s |-> <<>>, n |-> n]

(* str(x) *)
Str(x) == IF x.kind = "int" THEN IntStr(x.n) ELSE x.s

RECURSIVE Join(_, _)
(* sep.join(map(str, args)) *)
Join(sep, args) ==
    IF args = <<>> THEN <<>>
    ELSE IF Len(args) = 1 THEN Str(args[1])
    ELSE Str(args[1]) \o sep \o Join(sep, Tail(args))

RECURSIVE LStrip(_)
LStrip(s) == IF s # <<>> /\ Head(s) \in Whitespace THEN LStrip(Tail(s)) ELSE s

RECURSIVE RStrip(_)
RStrip(s) ==
    IF s # <<>> /\ s[Len(s)] \in Whitespace THEN RStrip(SubSeq(s, 1, Len(s) - 1)) ELSE s

(* str.strip() *)
Strip(s) == RStrip(LStrip(s))

Reverse(s) == [i \in 1..Len(s) |-> s[Len(s) + 1 - i]]

(* ------------------------------ frames --------------------------------- *)

(* The file this module is loaded from. *)
ModuleFile == <<"/", "h", "/", "_", "_", "i", "n", "i", "t", "_", "_", ".", "p", "y">>

(* The line of print that is executing while print calls print. *)
FallbackLine == 40

(* The frame of a function of this module, executing at lineno. *)
OwnFrame(name, lineno) ==
    [filename |-> ModuleFile, lineno |-> lineno, name |-> name, line |-> None]

(* inspect.getouterframes(frame, 2): the frame itself, then its callers from
   the innermost outwards.  stack holds the callers, outermost first. *)
getouterframes(own, stack) == <<own>> \o Reverse(stack)

(* traceback.extract_stack: of the frames walked from a frame outwards, the
   first limit (limit >= 0), the last -limit (limit < 0) or all of them (no
   limit, sys.tracebacklimit unset), then reversed to outermost first. *)
extract_stack(walked, limit) ==
    LET n    == Len(walked)
        kept == IF limit = None THEN walked
                ELSE IF limit[1] >= 0
                     THEN SubSeq(walked, 1, IF limit[1] < n THEN limit[1] ELSE n)
                     ELSE SubSeq(walked, IF n + limit[1] < 0 THEN 1 ELSE n + limit[1] + 1, n)
    IN  Reverse(kept)

(* ----------------------- _format_hyperlinked_frame --------------------- *)

(* _format_hyperlinked_frame, were it to link the function name too. *)
_format_hyperlinked_frame_whole(frame, scheme) ==
    LET location_text ==
            <<"F", "i", "l", "e", " ", DQ>> \o frame.filename
                \o <<DQ, ",", " ", "l", "i", "n", "e", " ">> \o IntStr(frame.lineno)
                \o <<",", " ", "i", "n", " ">> \o frame.name
        line ==
            <<" ", " ">>
                \o hyperlink_to_path(location_text, frame.filename, Some(frame.lineno), scheme)
                \o <<NL>>
    IN  IF frame.line # None /\ frame.line[1] # <<>>
        THEN line \o <<" ", " ", " ", " ">> \o Strip(frame.line[1]) \o <<NL>>
        ELSE line

(* _format_hyperlinked_frame, were it to leave the source line unstripped. *)
_format_hyperlinked_frame_unstripped(frame, scheme) ==
    LET location_text ==
            <<"F", "i", "l", "e", " ", DQ>> \o frame.filename
                \o <<DQ, ",", " ", "l", "i", "n", "e", " ">> \o IntStr(frame.lineno)
        line ==
            <<" ", " ">>
                \o hyperlink_to_path(location_text, frame.filename, Some(frame.lineno), scheme)
                \o <<",", " ", "i", "n", " ">> \o frame.name \o <<NL>>
    IN  IF frame.line # None /\ frame.line[1] # <<>>
        THEN line \o <<" ", " ", " ", " ">> \o frame.line[1] \o <<NL>>
        ELSE line

_format_hyperlinked_frame(frame, scheme) ==
    LET location_text ==
            <<"F", "i", "l", "e", " ", DQ>> \o frame.filename
                \o <<DQ, ",", " ", "l", "i", "n", "e", " ">> \o IntStr(frame.lineno)
        hyperlinked_location ==
            hyperlink_to_path(location_text, frame.filename, Some(frame.lineno), scheme)
        line ==
            <<" ", " ">> \o hyperlinked_location \o <<",", " ", "i", "n", " ">>
                \o frame.name \o <<NL>>
    IN  IF frame.line # None /\ frame.line[1] # <<>>
        THEN line \o <<" ", " ", " ", " ">> \o Strip(frame.line[1]) \o <<NL>>
        ELSE line

(* -------------------------------- print -------------------------------- *)

RECURSIVE print(_, _, _, _)
(* c: the arguments of the call; frame: whether inspect.currentframe()
   returns a frame; stack: the callers, outermost first; depth: the calls of
   print already on the stack.  The result is what the call raised and what
   it wrote. *)
print(c, frame, stack, depth) ==
    IF frame /\ Len(getouterframes(OwnFrame(<<"p", "r", "i", "n", "t">>, 26), stack)) >= 2
    THEN LET caller_frame ==
                 getouterframes(OwnFrame(<<"p", "r", "i", "n", "t">>, 26), stack)[2]
         IN  [raised |-> FALSE,
              writes |-> << BuiltinPrint(
                              hyperlink_to_path(Join(c.sep, c.args),
                                                Resolve(caller_frame.filename),
                                                Some(caller_frame.lineno),
                                                c.scheme),
                              c.end, Or(c.file, stdout), c.flush) >>]
    ELSE IF depth >= RecursionLimit
         THEN [raised |-> TRUE, writes |-> <<>>]
         ELSE print([c EXCEPT !.scheme = SCHEME], frame,
                    Append(stack, OwnFrame(<<"p", "r", "i", "n", "t">>, FallbackLine)),
                    depth + 1)

(* ----------------------------- hyperlinked ----------------------------- *)

(* hyperlinked, were it to take the first entry of the outer frames, its own
   frame, for the caller. *)
hyperlinked_ownframe(text, frame, stack) ==
    IF ~frame THEN text
    ELSE LET caller_frame_info ==
                 getouterframes(OwnFrame(<<"h", "y", "p", "e", "r", "l", "i", "n", "k", "e", "d">>, 50),
                                stack)
         IN  IF Len(caller_frame_info) < 2 THEN text
             ELSE hyperlink_to_path(text, Resolve(caller_frame_info[1].filename),
                                    Some(caller_frame_info[1].lineno), SCHEME)

hyperlinked(text, frame, stack) ==
    IF ~frame THEN text
    ELSE LET caller_frame_info ==
                 getouterframes(OwnFrame(<<"h", "y", "p", "e", "r", "l", "i", "n", "k", "e", "d">>, 50),
                                stack)
         IN  IF Len(caller_frame_info) < 2 THEN text
             ELSE hyperlink_to_path(text, Resolve(caller_frame_info[2].filename),
                                    Some(caller_frame_info[2].lineno), SCHEME)

(* ----------------------------- print_stack ----------------------------- *)

RECURSIVE PrintFrames(_, _, _)
(* for frame in stack: builtins.print(formatted_line, end="", file=file) *)
PrintFrames(stack, scheme, file) ==
    IF stack = <<>> THEN <<>>
    ELSE <<BuiltinPrint(_format_hyperlinked_frame(Head(stack), scheme), <<>>, file, FALSE)>>
             \o PrintFrames(Tail(stack), scheme, file)

(* print_stack, were it to pass the limit on without adding its own frame. *)
print_stack_limit(f, limit, file, scheme, callers) ==
    LET out  == IF file = NoFile THEN stderr ELSE file
        own  == OwnFrame(<<"p", "r", "i", "n", "t", "_", "s", "t", "a", "c", "k">>,
                         IF f = None THEN 97 ELSE 101)
        full == Append(callers, own)
        stack ==
            IF f = None
            THEN LET all == extract_stack(Reverse(full), limit)
                 IN  SubSeq(all, 1, Len(all) - 1)
            ELSE extract_stack(Reverse(SubSeq(full, 1, f[1])), limit)
    IN  PrintFrames(stack, scheme, out)

(* f: None, or the position in the call stack (callers outermost first, then
   print_stack's own frame) of the frame the caller passes. *)
print_stack(f, limit, file, scheme, callers) ==
    LET out  == IF file = NoFile THEN stderr ELSE file
        own  == OwnFrame(<<"p", "r", "i", "n", "t", "_", "s", "t", "a", "c", "k">>,
                         IF f = None THEN 97 ELSE 101)
        full == Append(callers, own)
        stack ==
            IF f = None
            THEN LET all == extract_stack(Reverse(full),
                                          IF limit # None THEN Some(limit[1] + 1) ELSE None)
                 IN  SubSeq(all, 1, Len(all) - 1)
            ELSE extract_stack(Reverse(SubSeq(full, 1, f[1])), limit)
    IN  PrintFrames(stack, scheme, out)

(* ------------------------------ excepthook ----------------------------- *)

TracebackHeader ==
    << "T", "r", "a", "c", "e", "b", "a", "c", "k", " ", "(", "m", "o", "s", "t", " ",
       "r", "e", "c", "e", "n", "t", " ", "c", "a", "l", "l", " ", "l", "a", "s", "t",
       ")", ":" >>

RECURSIVE NoteLines(_)
NoteLines(notes) ==
    IF notes = <<>> THEN <<>> ELSE <<Head(notes) \o <<NL>>>> \o NoteLines(Tail(notes))

(* traceback.format_exception_only(exc_type, exc_value): the line
   "Type: message" ("Type" when str(exc_value) is empty), then one line for
   each note of the exception. *)
format_exception_only(exc_type, exc_value) ==
    << exc_type \o (IF exc_value.msg = <<>> THEN <<>> ELSE <<":", " ">> \o exc_value.msg)
         \o <<NL>> >>
      \o NoteLines(exc_value.notes)

RECURSIVE PrintLines(_)
(* for line in exc_lines: builtins.print(line, end="", file=sys.stderr) *)
PrintLines(lines) ==
    IF lines = <<>> THEN <<>>
    ELSE <<BuiltinPrint(Head(lines), <<>>, stderr, FALSE)>> \o PrintLines(Tail(lines))

(* excepthook, were it to write the exception's lines before the frames. *)
excepthook_lines_first(exc_type, exc_value, tb, scheme) ==
    <<BuiltinPrint(TracebackHeader, <<NL>>, stderr, FALSE)>>
      \o PrintLines(format_exception_only(exc_type, exc_value))
      \o PrintFrames(tb, scheme, stderr)

(* tb: the frames traceback.extract_tb(tb) returns, outermost first. *)
excepthook(exc_type, exc_value, tb, scheme) ==
    <<BuiltinPrint(TracebackHeader, <<NL>>, stderr, FALSE)>>
      \o PrintFrames(tb, scheme, stderr)
      \o PrintLines(format_exception_only(exc_type, exc_value))

(* --------------------------- inputs: frames ---------------------------- *)

f_name == <<"f">>

module_name == <<"<", "m", ">">>

a_py == <<"a", ".", "p", "y">>

FrameA == [filename |-> tmp_a_py, lineno |-> 42, name |-> f_name,
           line |-> Some(<<" ", "x", NL>>)]

FrameB == [filename |-> a_py, lineno |-> 7, name |-> module_name, line |-> None]

FrameC == [filename |-> <<"/", "t", "/", ".", ".", "/", "a">>, lineno |-> 120,
           name |-> f_name, line |-> Some(<<>>)]

StackFrames == {FrameA, FrameB, FrameC}

(* Call stacks and tracebacks, outermost frame first. *)
Stacks == StringsUpTo(StackFrames, MaxDepth)

SourceLines ==
    { None, Some(<<>>), Some(<<"x">>), Some(<<" ", "x", " ", "y", NL>>),
      Some(<<"\t", "x">>), Some(<<" ", NL>>) }

FrameSummaries ==
    [filename : {tmp_a_py, a_py, <<"/", "/", "t", "/", "/", "a", "/">>},
     lineno   : {7, 42, 120},
     name     : {f_name, module_name},
     line     : SourceLines]

Limits == {None} \cup {Some(n) : n \in -1..MaxLimit}

UserFiles == {[name |-> "s1", truthy |-> TRUE], [name |-> "s2", truthy |-> FALSE]}

FileArgs == {NoFile} \cup UserFiles

ArgLists ==
    { <<>>, <<StrValue(<<"x">>)>>, <<StrValue(<<"x">>), IntValue(12)>>,
      <<StrValue(<<>>), StrValue(<<ESC, "x">>)>> }

Seps == {<<" ">>, <<",", " ">>}

Ends == {<<NL>>, <<>>}

ExcTypes == {<<"E">>}

ExcValues == [msg : {<<>>, <<"m">>}, notes : {<<>>, <<<<"n">>>>, <<<<"n">>, <<"o">>>>}]

(* ------------------------------ actions -------------------------------- *)

Init ==
    /\ \E env \in Environments : SCHEME = EnvironGet(env)
    /\ op = "idle"
    /\ inp = <<>>
    /\ ret = None
    /\ raised = FALSE
    /\ writes = <<>>

(* The value a defaulted scheme parameter takes: SCHEME, bound at import. *)
SchemeOf(arg) == IF arg = None THEN SCHEME ELSE arg[1]

CallHyperlink ==
    /\ op = "idle"
    /\ \E text \in Texts, url \in Urls :
        /\ op' = "hyperlink"
        /\ inp' = [text |-> text, url |-> url]
        /\ ret' = Some(hyperlink(text, url))
        /\ raised' = FALSE
        /\ writes' = <<>>
        /\ UNCHANGED SCHEME

CallHyperlinkToPath ==
    /\ op = "idle"
    /\ \E text \in Texts, path \in Paths, line \in Lines, scheme \in SchemeArgs :
        /\ op' = "hyperlink_to_path"
        /\ inp' = [text |-> text, path |-> path, line |-> line, scheme |-> SchemeOf(scheme)]
        /\ ret' = Some(hyperlink_to_path(text, path, line, SchemeOf(scheme)))
        /\ raised' = FALSE
        /\ writes' = <<>>
        /\ UNCHANGED SCHEME

CallFormatFrame ==
    /\ op = "idle"
    /\ \E frame \in FrameSummaries, scheme \in {file_scheme, vscode_scheme} :
        /\ op' = "_format_hyperlinked_frame"
        /\ inp' = [frame |-> frame, scheme |-> scheme]
        /\ ret' = Some(_format_hyperlinked_frame(frame, scheme))
        /\ raised' = FALSE
        /\ writes' = <<>>
        /\ UNCHANGED SCHEME

CallPrint ==
    /\ op = "idle"
    /\ \E args \in ArgLists, sep \in Seps, end \in Ends, file \in FileArgs,
       flush \in BOOLEAN, scheme \in SchemeArgs, frame \in BOOLEAN,
       stack \in {<<>>, <<FrameA>>, <<FrameA, FrameB>>} :
        LET c == [args |-> args, sep |-> sep, end |-> end, file |-> file,
                  flush |-> flush, scheme |-> SchemeOf(scheme)]
            r == print(c, frame, stack, 0)
        IN  /\ op' = "print"
            /\ inp' = [c EXCEPT !.scheme = scheme] @@ [frame |-> frame, stack |-> stack]
            /\ ret' = None
            /\ raised' = r.raised
            /\ writes' = r.writes
            /\ UNCHANGED SCHEME

CallHyperlinked ==
    /\ op = "idle"
    /\ \E text \in {<<>>, <<"x">>, <<ESC, "x">>}, frame \in BOOLEAN, stack \in Stacks :
        /\ op' = "hyperlinked"
        /\ inp' = [text |-> text, frame |-> frame, stack |-> stack]
        /\ ret' = Some(hyperlinked(text, frame, stack))
        /\ raised' = FALSE
        /\ writes' = <<>>
        /\ UNCHANGED SCHEME

CallPrintStack ==
    /\ op = "idle"
    /\ \E callers \in Stacks, limit \in Limits, file \in {NoFile, [name |-> "s1", truthy |-> TRUE]},
       f \in {None} \cup {Some(i) : i \in 1..(MaxDepth + 1)} :
        /\ f # None => f[1] <= Len(callers) + 1
        /\ op' = "print_stack"
        /\ inp' = [f |-> f, limit |-> limit, file |-> file, scheme |-> SCHEME,
                   callers |-> callers]
        /\ ret' = None
        /\ raised' = FALSE
        /\ writes' = print_stack(f, limit, file, SCHEME, callers)
        /\ UNCHANGED SCHEME

CallExcepthook ==
    /\ op = "idle"
    /\ \E exc_type \in ExcTypes, exc_value \in ExcValues, tb \in Stacks,
       scheme \in SchemeArgs :
        /\ op' = "excepthook"
        /\ inp' = [exc_type |-> exc_type, exc_value |-> exc_value, tb |-> tb,
                   scheme |-> SchemeOf(scheme)]
        /\ ret' = None
        /\ raised' = FALSE
        /\ writes' = excepthook(exc_type, exc_value, tb, SchemeOf(scheme))
        /\ UNCHANGED SCHEME

(* Control is back at the caller, which may call again: nothing of a call
   is retained but SCHEME. *)
Return ==
    /\ op # "idle"
    /\ op' = "idle"
    /\ inp' = <<>>
    /\ ret' = None
    /\ raised' = FALSE
    /\ writes' = <<>>
    /\ UNCHANGED SCHEME

Next ==
    \/ CallHyperlink
    \/ CallHyperlinkToPath
    \/ CallFormatFrame
    \/ CallPrint
    \/ CallHyperlinked
    \/ CallPrintStack
    \/ CallExcepthook
    \/ Return

Spec == Init /\ [][Next]_vars

(* ======================================================================= *)
(* The OSC8 wire format, as a terminal reads it.                           *)
(* ======================================================================= *)

OpenSeq(url) == <<ESC, "]", "8", ";", ";">> \o url \o <<ESC, BSL>>

CloseSeq == <<ESC, "]", "8", ";", ";", ESC, BSL>>

Linked(text, url) == OpenSeq(url) \o text \o CloseSeq

HasPrefix(s, pre) == Len(pre) <= Len(s) /\ SubSeq(s, 1, Len(pre)) = pre

HasSuffix(s, suf) == Len(suf) <= Len(s) /\ SubSeq(s, Len(s) - Len(suf) + 1, Len(s)) = suf

(* Where sub occurs in s at or after position from. *)
Occurrences(sub, s, from) ==
    {i \in from..(Len(s) - Len(sub) + 1) : SubSeq(s, i, i + Len(sub) - 1) = sub}

Min(S) == CHOOSE x \in S : \A y \in S : x <= y

(* A conforming reader: the link opens at the first ESC ] 8 ; ; the url runs
   to the next ESC \ and the text to the next ESC ] 8 ; ; ESC \. *)
Parse(s) ==
    LET o == Min(Occurrences(<<ESC, "]", "8", ";", ";">>, s, 1))
        t == Min(Occurrences(<<ESC, BSL>>, s, o + 5))
        c == Min(Occurrences(CloseSeq, s, t + 2))
    IN  [before |-> SubSeq(s, 1, o - 1),
         url    |-> SubSeq(s, o + 5, t - 1),
         text   |-> SubSeq(s, t + 2, c - 1),
         after  |-> SubSeq(s, c + 7, Len(s))]

DoubleSlashes(s) == Occurrences(<<"/", "/">>, s, 1)

(* The caller's frame information is available to print and hyperlinked. *)
CallerAvailable == inp.frame /\ Len(inp.stack) >= 1

(* ------------------------------- C1 ------------------------------------ *)

(* C1: hyperlink(text, url) is exactly ESC ] 8 ; ; url ESC \ text
   ESC ] 8 ; ; ESC \ for every text and url: both appear verbatim, nothing is
   added, escaped or removed, and empty text gives the open sequence
   immediately followed by the close sequence. *)
C1_WireFormat ==
    op = "hyperlink" =>
        /\ ret = Some(Linked(inp.text, inp.url))
        /\ inp.text = <<>> => ret = Some(OpenSeq(inp.url) \o CloseSeq)

C1_Witness ==
    /\ op = "hyperlink"
    /\ inp.text = <<ESC, BSL>>
    /\ inp.url = <<"u", "/">>
    /\ Len(ret[1]) = 18

(* ------------------------------- C7 ------------------------------------ *)

(* C7 as stated: the length of hyperlink(text, url) is
   len(text) + 8 + len(url). *)
C7_Overhead8 ==
    op = "hyperlink" => Len(ret[1]) = Len(inp.text) + 8 + Len(inp.url)

(* C7 amended: the length of hyperlink(text, url) is
   len(text) + 14 + len(url): the open sequence adds 7 characters to the url
   and the close sequence is 7 characters, whatever text and url are. *)
C7_Overhead14 ==
    op = "hyperlink" => Len(ret[1]) = Len(inp.text) + 14 + Len(inp.url)

C7_Witness ==
    /\ op = "hyperlink"
    /\ Len(inp.text) = 2
    /\ Len(inp.url) = 1
    /\ Len(ret[1]) = 17

(* ------------------------------- C3 ------------------------------------ *)

SchemeSeparator == <<":", "/", "/", "f", "i", "l", "e", "/">>

vscode_tmp_a_py_42 ==
    vscode_scheme \o <<":", "/", "/", "f", "i", "l", "e", "/",
                       "t", "m", "p", "/", "a", ".", "p", "y", ":", "4", "2">>

vscode_slash_tmp_a_py_42 ==
    vscode_scheme \o <<":", "/", "/", "f", "i", "l", "e", "/", "/",
                       "t", "m", "p", "/", "a", ".", "p", "y", ":", "4", "2">>

IsExample == inp.path = tmp_a_py /\ inp.line = Some(42) /\ inp.scheme = vscode_scheme

LineSuffix(line) == IF line = None THEN <<>> ELSE <<":">> \o IntStr(line[1])

(* C3 as stated: for an absolute path the URL starts with <scheme>://file/,
   has no double slash but the one of "://", and /tmp/a.py, 42, vscode gives
   vscode://file/tmp/a.py:42. *)
C3_NoDoubleSlash ==
    op = "hyperlink_to_path" /\ IsAbs(inp.path) =>
        LET url == Parse(ret[1]).url IN
        /\ HasPrefix(url, inp.scheme \o SchemeSeparator)
        /\ DoubleSlashes(url) = {Len(inp.scheme) + 2}
        /\ IsExample => url = vscode_tmp_a_py_42

(* C3 amended: for an absolute path the URL is <scheme>://file/ followed by
   the resolved absolute path and by :<line> when a line is given; the
   resolved path begins with "/", so that the URL holds the double slash of
   "file//" besides the one of "://" (and no other), and /tmp/a.py, 42,
   vscode gives vscode://file//tmp/a.py:42. *)
C3_ResolvedPathAppended ==
    op = "hyperlink_to_path" /\ IsAbs(inp.path) =>
        LET url == Parse(ret[1]).url
            pre == inp.scheme \o SchemeSeparator
        IN  /\ url = pre \o Resolve(inp.path) \o LineSuffix(inp.line)
            /\ url[Len(pre) + 1] = "/"
            /\ DoubleSlashes(url) = {Len(inp.scheme) + 2, Len(pre)}
            /\ IsExample => url = vscode_slash_tmp_a_py_42

C3_Witness ==
    /\ op = "hyperlink_to_path"
    /\ IsExample
    /\ Parse(ret[1]).url = vscode_slash_tmp_a_py_42

(* ------------------------------- C6 ------------------------------------ *)

LocationText(frame) ==
    <<"F", "i", "l", "e", " ", DQ>> \o frame.filename
        \o <<DQ, ",", " ", "l", "i", "n", "e", " ">> \o IntStr(frame.lineno)

InFunction(frame) == <<",", " ", "i", "n", " ">> \o frame.name

(* C6 as stated: the whole of File "<path>", line <n>, in <function> lies
   between the open and the close sequence of the hyperlink. *)
C6_FunctionInsideLink ==
    op = "_format_hyperlinked_frame" =>
        Parse(ret[1]).text = LocationText(inp.frame) \o InFunction(inp.frame)

(* C6 amended: only File "<path>", line <n> lies between the open and the
   close sequence of the hyperlink; ", in <function>" and the newline follow
   the close sequence. *)
C6_FunctionAfterLink ==
    op = "_format_hyperlinked_frame" =>
        /\ Parse(ret[1]).text = LocationText(inp.frame)
        /\ HasPrefix(Parse(ret[1]).after, InFunction(inp.frame) \o <<NL>>)

C6_Witness ==
    /\ op = "_format_hyperlinked_frame"
    /\ inp.frame.name = f_name
    /\ inp.frame.filename = tmp_a_py
    /\ Parse(ret[1]).after = <<",", " ", "i", "n", " ", "f", NL>>

(* ------------------------------- C9 ------------------------------------ *)

NewLines(s) == {i \in 1..Len(s) : s[i] = NL}

(* The number of lines of s: every newline ends one, and so does the end of
   s when characters follow the last newline. *)
LineCount(s) ==
    Cardinality(NewLines(s)) + (IF s # <<>> /\ s[Len(s)] # NL THEN 1 ELSE 0)

(* The first line of s with its newline, and what follows it. *)
FirstLine(s) == SubSeq(s, 1, Min(NewLines(s)))

AfterFirstLine(s) == SubSeq(s, Min(NewLines(s)) + 1, Len(s))

(* t is src without its leading and trailing whitespace. *)
IsStripped(t, src) ==
    /\ t # <<>> => t[1] \notin Whitespace /\ t[Len(t)] \notin Whitespace
    /\ \E i \in 0..Len(src) :
          /\ i + Len(t) <= Len(src)
          /\ SubSeq(src, i + 1, i + Len(t)) = t
          /\ \A k \in 1..Len(src) : (k <= i \/ k > i + Len(t)) => src[k] \in Whitespace

SourcePresent(frame) == frame.line # None /\ frame.line[1] # <<>>

(* C9: the frame formatter's result is one line, the location line ending
   in a newline, when the frame's source text is unavailable or empty; and
   two lines when it is present, the second being four spaces, the source
   text without its leading and trailing whitespace, and a newline.  The
   location line is there in both cases. *)
C9_OneOrTwoLines ==
    op = "_format_hyperlinked_frame" =>
        LET first  == FirstLine(ret[1])
            second == AfterFirstLine(ret[1])
        IN  /\ LineCount(ret[1]) = IF SourcePresent(inp.frame) THEN 2 ELSE 1
            /\ ret[1][Len(ret[1])] = NL
            /\ HasPrefix(first, <<" ", " ", ESC>>)
            /\ Parse(first).url # <<>>
            /\ HasSuffix(first, inp.frame.name \o <<NL>>)
            /\ SourcePresent(inp.frame) =>
                  /\ HasPrefix(second, <<" ", " ", " ", " ">>)
                  /\ HasSuffix(second, <<NL>>)
                  /\ IsStripped(SubSeq(second, 5, Len(second) - 1), inp.frame.line[1])

C9_Witness ==
    /\ op = "_format_hyperlinked_frame"
    /\ inp.frame.line = Some(<<" ", "x", " ", "y", NL>>)
    /\ AfterFirstLine(ret[1]) = <<" ", " ", " ", " ", "x", " ", "y", NL>>

(* ------------------------------- C2 ------------------------------------ *)

(* The stream builtins.print writes to when handed the caller's file. *)
TargetStream == IF inp.file = NoFile THEN stdout ELSE inp.file

(* C2: when the caller's frame information is unavailable (no current frame,
   or fewer than two outer frames), print does not raise and writes the
   arguments, stringified and joined by the separator, with the terminator,
   exactly once and unlinked, to the target stream. *)
C2_FallbackPlainPrint ==
    op = "print" /\ ~CallerAvailable =>
        /\ ~raised
        /\ Len(writes) = 1
        /\ writes[1].text = Join(inp.sep, inp.args)
        /\ writes[1].end = inp.end
        /\ writes[1].file = TargetStream

(* ------------------------------- C10 ----------------------------------- *)

(* C10: when the caller's frame information is available, print writes
   exactly once, to the stream the caller supplied whenever one was supplied
   (whatever its truth value) and to standard output only when none was, with
   the terminator and the flush flag the caller gave. *)
C10_SuppliedStream ==
    op = "print" /\ CallerAvailable =>
        /\ Len(writes) = 1
        /\ writes[1].file = TargetStream
        /\ writes[1].end = inp.end
        /\ writes[1].flush = inp.flush

(* ------------------------------- C8 ------------------------------------ *)

(* C8: hyperlinked(text) writes to no stream; it returns the text it was
   given when the caller's frame information is unavailable, and otherwise
   hyperlink(text, url) with url naming the immediate caller's resolved file
   and its line. *)
C8_HyperlinkedReturns ==
    op = "hyperlinked" =>
        /\ writes = <<>>
        /\ ~CallerAvailable => ret = Some(inp.text)
        /\ CallerAvailable =>
              LET caller == inp.stack[Len(inp.stack)] IN
              /\ Parse(ret[1]).before = <<>>
              /\ Parse(ret[1]).url = SCHEME \o SchemeSeparator \o Resolve(caller.filename)
                                        \o <<":">> \o IntStr(caller.lineno)
              /\ ret = Some(Linked(inp.text, Parse(ret[1]).url))

C8_Witness ==
    /\ op = "hyperlinked"
    /\ ~inp.frame
    /\ Len(inp.stack) = 2
    /\ inp.text = <<ESC, "x">>
    /\ ret = Some(<<ESC, "x">>)

(* ------------------------------- C4 ------------------------------------ *)

Smaller(a, b) == IF a < b THEN a ELSE b

print_stack_name == <<"p", "r", "i", "n", "t", "_", "s", "t", "a", "c", "k">>

(* C4: print_stack without a frame and with a limit n >= 0, called with d
   frames above it, writes min(n, d) formatted frames: the innermost callers,
   outermost of them first; with no limit it writes all d; its own frame is
   never written. *)
C4_InnermostCallers ==
    op = "print_stack" /\ inp.f = None /\ (inp.limit = None \/ inp.limit[1] >= 0) =>
        LET d == Len(inp.callers)
            m == IF inp.limit = None THEN d ELSE Smaller(inp.limit[1], d)
        IN  /\ Len(writes) = m
            /\ \A i \in 1..m :
                  /\ Parse(writes[i].text).text = LocationText(inp.callers[d - m + i])
                  /\ HasPrefix(Parse(writes[i].text).after,
                               InFunction(inp.callers[d - m + i]) \o <<NL>>)
            /\ \A i \in 1..Len(writes) :
                  Occurrences(print_stack_name, writes[i].text, 1) = {}

C4_Witness ==
    /\ op = "print_stack"
    /\ inp.f = None
    /\ inp.limit = Some(2)
    /\ inp.callers = <<FrameA, FrameB, FrameC>>
    /\ Len(writes) = 2
    /\ Parse(writes[1].text).text = LocationText(FrameB)
    /\ Parse(writes[2].text).text = LocationText(FrameC)

(* ------------------------------- C5 ------------------------------------ *)

HeaderText ==
    << "T", "r", "a", "c", "e", "b", "a", "c", "k", " ", "(", "m", "o", "s", "t", " ",
       "r", "e", "c", "e", "n", "t", " ", "c", "a", "l", "l", " ", "l", "a", "s", "t",
       ")", ":" >>

(* The type-and-message lines of the standard formatter, in its order. *)
ExceptionLines ==
    << inp.exc_type
         \o (IF inp.exc_value.msg = <<>> THEN <<>> ELSE <<":", " ">> \o inp.exc_value.msg)
         \o <<NL>> >>
      \o [i \in 1..Len(inp.exc_value.notes) |-> inp.exc_value.notes[i] \o <<NL>>]

(* C5: for a traceback of k frames the exception hook writes, in this order
   and to standard error only: the line "Traceback (most recent call
   last):", the k formatted frames from the outermost to the innermost, then
   the exception's type-and-message lines in the standard formatter's
   order. *)
C5_HeaderFramesException ==
    op = "excepthook" =>
        LET k == Len(inp.tb) IN
        /\ Len(writes) = 1 + k + Len(ExceptionLines)
        /\ writes[1].text = HeaderText /\ writes[1].end = <<NL>>
        /\ \A i \in 1..k :
              /\ HasPrefix(writes[1 + i].text, <<" ", " ", ESC, "]", "8", ";", ";">>)
              /\ Parse(writes[1 + i].text).text = LocationText(inp.tb[i])
              /\ HasPrefix(Parse(writes[1 + i].text).after, InFunction(inp.tb[i]) \o <<NL>>)
              /\ writes[1 + i].end = <<>>
        /\ \A j \in 1..Len(ExceptionLines) :
              /\ writes[1 + k + j].text = ExceptionLines[j]
              /\ writes[1 + k + j].end = <<>>
        /\ \A i \in 1..Len(writes) : writes[i].file = stderr

C5_Witness ==
    /\ op = "excepthook"
    /\ inp.tb = <<FrameB, FrameA>>
    /\ inp.exc_value.notes = <<<<"n">>, <<"o">>>>
    /\ Len(writes) = 6
    /\ writes[6].text = <<"o", NL>>

====
